---- MODULE Spec2Model ----
(***************************************************************************)
(* SurfSense backend: process bootstrap (main.py), the startup model       *)
(* provisioning routine (app/services/startup.py) and the two config       *)
(* exposure endpoints (app/routes/config_routes.py,                        *)
(* app/routes/auth_config_routes.py).                                      *)
(*                                                                         *)
(* Strings are sequences of one-character strings, so that str.upper(),    *)
(* str.rstrip() and == are computed character by character.                *)
(***************************************************************************)
EXTENDS Integers, Sequences, FiniteSets, TLC

VARIABLES env, fs, fs0, pc, etl_service, branch, result, exc, caught,
          raisedBy, invocations, doclingCalls, easyocrCalls, log, served, response

vars == <<env, fs, fs0, pc, etl_service, branch, result, exc, caught,
          raisedBy, invocations, doclingCalls, easyocrCalls, log, served, response>>

\* Number of HTTP requests a behaviour serves.
MaxRequests == 2

----------------------------------------------------------------------------
\* String literals of the source.
S_EMPTY == << >>
S_GOOGLE == <<"G","O","O","G","L","E">>
S_google == <<"g","o","o","g","l","e">>
S_LOCAL == <<"L","O","C","A","L">>
S_Local == <<"L","o","c","a","l">>
S_UNSTRUCTURED == <<"U","N","S","T","R","U","C","T","U","R","E","D">>
S_unstructured == <<"u","n","s","t","r","u","c","t","u","r","e","d">>
S_DOCLING == <<"D","O","C","L","I","N","G">>
S_Docling == <<"D","o","c","l","i","n","g">>
S_LLAMACLOUD == <<"L","L","A","M","A","C","L","O","U","D">>
S_llamacloud == <<"l","l","a","m","a","c","l","o","u","d">>
S_UNKNOWN_VALUE == <<"U","N","K","N","O","W","N","_","V","A","L","U","E">>
S_LOCALHOST == <<"h","t","t","p",":","/","/","l","o","c","a","l","h","o","s","t",":","8","0","0","0">>
S_BASE == <<"h","t","t","p",":","/","/","a","p","i","/">>
S_BASE2 == <<"h","t","t","p","s",":","/","/","x">>

LowerLetters == <<"a","b","c","d","e","f","g","h","i","j","k","l","m",
                  "n","o","p","q","r","s","t","u","v","w","x","y","z">>
UpperLetters == <<"A","B","C","D","E","F","G","H","I","J","K","L","M",
                  "N","O","P","Q","R","S","T","U","V","W","X","Y","Z">>

IsLowerChar(c) == \E i \in 1..26 : LowerLetters[i] = c

UpperChar(c) ==
    IF IsLowerChar(c)
    THEN UpperLetters[CHOOSE i \in 1..26 : LowerLetters[i] = c]
    ELSE c

\* str.upper()
Upper(s) == [i \in 1..Len(s) |-> UpperChar(s[i])]

\* str.rstrip(c)
RECURSIVE RStrip(_, _)
RStrip(s, c) ==
    IF Len(s) > 0 /\ s[Len(s)] = c
    THEN RStrip(SubSeq(s, 1, Len(s) - 1), c)
    ELSE s

----------------------------------------------------------------------------
\* Process environment.  An unset variable is None.
None == [set |-> FALSE, val |-> S_EMPTY]
Some(s) == [set |-> TRUE, val |-> s]

AuthTypeValues == {None, Some(S_EMPTY), Some(S_GOOGLE), Some(S_google),
                   Some(S_LOCAL), Some(S_Local)}
EtlServiceValues == {None, Some(S_EMPTY), Some(S_UNSTRUCTURED),
                     Some(S_unstructured), Some(S_DOCLING), Some(S_Docling),
                     Some(S_LLAMACLOUD), Some(S_llamacloud),
                     Some(S_UNKNOWN_VALUE)}
BaseUrls == {S_BASE, S_BASE2}

\* os.getenv(name): the value or None
getenv(name) == env[name]

\* os.getenv(name, default): the default only when the variable is unset
getenv_default(name, default) ==
    IF env[name].set THEN env[name].val ELSE default

\* Python's  x or default : the default when x is None or the empty string
OrDefault(x, default) ==
    IF (~x.set) \/ x.val = S_EMPTY THEN default ELSE x.val

\* app.config.config: settings read from the environment
config == [AUTH_TYPE |-> getenv("AUTH_TYPE"),
           ETL_SERVICE |-> getenv("ETL_SERVICE")]

----------------------------------------------------------------------------
\* Filesystem: the model root (MODEL_PATH), its easyocr subdirectory and the
\* HuggingFace cache of Docling.
FsStates ==
    { f \in [root : {"absent", "dir", "file"},
             easyocr : {"absent", "empty", "nonempty", "file"},
             hf : {"absent", "empty", "nonempty"}] :
        f.root # "dir" => f.easyocr = "absent" }

InitExceptions == {"OSError", "RuntimeError"}
DoclingExceptions == InitExceptions \cup {"ImportError"}

\* What a failed download may leave behind: nothing new, the directory
\* created, or part of the artifacts.  A populated directory stays populated.
PartialDownload(d) ==
    IF d = "nonempty" THEN {"nonempty"} ELSE {d, "empty", "nonempty"}

NoResponse == [endpoint |-> "none", status |-> 0,
               body |-> [authType |-> S_EMPTY, etlService |-> S_EMPTY]]

Init ==
    /\ env \in [AUTH_TYPE : AuthTypeValues, ETL_SERVICE : EtlServiceValues]
    /\ fs \in FsStates
    /\ fs0 = fs
    /\ pc = "boot"
    /\ etl_service = S_EMPTY
    /\ branch = "none"
    /\ result = "none"
    /\ exc = "none"
    /\ caught = "none"
    /\ raisedBy = "none"
    /\ invocations = 0
    /\ doclingCalls = 0
    /\ easyocrCalls = 0
    /\ log = << >>
    /\ served = 0
    /\ response = NoResponse

----------------------------------------------------------------------------
\* main.py 21-23: enter the try block and call check_and_download_models()
ModuleTry_skip ==
    /\ pc = "boot"
    /\ pc' = "main_entry"
    /\ log' = Append(log, "info:Checking ML models...")
    /\ UNCHANGED <<env, fs, fs0, branch, etl_service, result, exc, caught, raisedBy,
                   invocations, doclingCalls, easyocrCalls, served, response>>

ModuleTry ==
    /\ pc = "boot"
    /\ pc' = "cadm_start"
    /\ invocations' = invocations + 1
    /\ result' = "running"
    /\ log' = Append(log, "info:Checking ML models...")
    /\ UNCHANGED <<env, fs, fs0, branch, etl_service, exc, caught, raisedBy,
                   doclingCalls, easyocrCalls, served, response>>

\* startup.py 18-22: read ETL_SERVICE and MODEL_PATH, create the model root.
\* mkdir(parents=True, exist_ok=True) succeeds on an existing directory,
\* raises FileExistsError when the path is a file, and on an absent path
\* either creates it or raises (PermissionError).
check_and_download_models_start ==
    /\ pc = "cadm_start"
    /\ etl_service' = getenv_default("ETL_SERVICE", S_UNSTRUCTURED)
    /\ \/ /\ fs.root = "dir"
          /\ pc' = "cadm_branch"
          /\ log' = Append(log, "info:Model check")
          /\ UNCHANGED <<fs, result, exc, raisedBy>>
       \/ /\ fs.root = "absent"
          /\ fs' = [fs EXCEPT !.root = "dir"]
          /\ pc' = "cadm_branch"
          /\ log' = Append(log, "info:Model check")
          /\ UNCHANGED <<result, exc, raisedBy>>
       \/ /\ fs.root = "absent"
          /\ pc' = "main_except"
          /\ result' = "raised"
          /\ exc' = "PermissionError"
          /\ raisedBy' = "mkdir"
          /\ UNCHANGED <<fs, log>>
       \/ /\ fs.root = "file"
          /\ pc' = "main_except"
          /\ result' = "raised"
          /\ exc' = "FileExistsError"
          /\ raisedBy' = "mkdir"
          /\ UNCHANGED <<fs, log>>
    /\ UNCHANGED <<env, fs0, branch, caught, invocations, doclingCalls, easyocrCalls,
                   served, response>>

\* startup.py 24-35: branch on the service
BranchTarget_nocloud(svc) ==
    IF svc = S_DOCLING THEN "docling_try"
    ELSE IF svc = S_UNSTRUCTURED \/ svc = S_LLAMACLOUD THEN "unstructured_check"
    ELSE "warn"

BranchTarget_fallback(svc) ==
    IF svc = S_LLAMACLOUD THEN "return"
    ELSE IF svc = S_DOCLING THEN "docling_try"
    ELSE "unstructured_check"

BranchTarget(svc) ==
    IF svc = S_LLAMACLOUD THEN "return"
    ELSE IF svc = S_DOCLING THEN "docling_try"
    ELSE IF svc = S_UNSTRUCTURED THEN "unstructured_check"
    ELSE "warn"

check_and_download_models_branch ==
    /\ pc = "cadm_branch"
    /\ branch' = BranchTarget(etl_service)
    /\ LET t == BranchTarget(etl_service) IN
       \/ /\ t = "return"
          /\ log' = Append(log, "info:No local models needed")
          /\ result' = "returned"
          /\ pc' = "main_complete"
          /\ UNCHANGED <<exc, raisedBy>>
       \/ /\ t = "docling_try"
          /\ log' = Append(log, "info:Checking Docling models")
          /\ pc' = "docling_try"
          /\ UNCHANGED <<result, exc, raisedBy>>
       \/ /\ t = "unstructured_check"
          /\ pc' = "unstructured_check"
          /\ UNCHANGED <<log, result, exc, raisedBy>>
       \/ /\ t = "warn"
          /\ log' = Append(log, "warning:Unknown ETL_SERVICE")
          /\ result' = "returned"
          /\ pc' = "main_complete"
          /\ UNCHANGED <<exc, raisedBy>>
    /\ UNCHANGED <<env, fs, fs0, etl_service, caught, invocations,
                   doclingCalls, easyocrCalls, served, response>>

\* startup.py 45-56: DocumentConverter() is constructed unconditionally
\* (hf_cache_path is computed and never read).  The constructor downloads
\* what the HuggingFace cache lacks, or raises.
_check_docling_models_try ==
    /\ pc = "docling_try"
    /\ doclingCalls' = doclingCalls + 1
    /\ \/ /\ fs' = [fs EXCEPT !.hf = "nonempty"]
          /\ log' = Append(log, "info:Docling models ready")
          /\ result' = "returned"
          /\ pc' = "main_complete"
          /\ UNCHANGED caught
       \/ \E e \in DoclingExceptions, h \in PartialDownload(fs.hf) :
          /\ fs' = [fs EXCEPT !.hf = h]
          /\ caught' = e
          /\ pc' = "docling_except"
          /\ UNCHANGED <<log, result>>
    /\ UNCHANGED <<env, fs0, branch, etl_service, exc, raisedBy, invocations,
                   easyocrCalls, served, response>>

\* startup.py 57-59: log the failure and re-raise it
_check_docling_models_except_swallow ==
    /\ pc = "docling_except"
    /\ log' = Append(log, "error:Failed to prepare Docling models")
    /\ result' = "returned"
    /\ pc' = "main_complete"
    /\ UNCHANGED <<env, fs, fs0, branch, etl_service, exc, raisedBy, caught,
                   invocations, doclingCalls, easyocrCalls, served, response>>

_check_docling_models_except ==
    /\ pc = "docling_except"
    /\ log' = Append(log, "error:Failed to prepare Docling models")
    /\ exc' = caught
    /\ raisedBy' = "docling"
    /\ result' = "raised"
    /\ pc' = "main_except"
    /\ UNCHANGED <<env, fs, fs0, branch, etl_service, caught, invocations,
                   doclingCalls, easyocrCalls, served, response>>

\* startup.py 64-70: easyocr_path.exists() and any(easyocr_path.iterdir()).
\* iterdir() on a regular file raises NotADirectoryError outside any try.
_check_unstructured_models_check_exists_only ==
    /\ pc = "unstructured_check"
    /\ \/ /\ fs.easyocr \in {"empty", "nonempty"}
          /\ log' = Append(log, "info:EasyOCR models already cached")
          /\ result' = "returned"
          /\ pc' = "main_complete"
          /\ UNCHANGED <<exc, raisedBy>>
       \/ /\ fs.easyocr = "file"
          /\ exc' = "NotADirectoryError"
          /\ raisedBy' = "iterdir"
          /\ result' = "raised"
          /\ pc' = "main_except"
          /\ UNCHANGED log
       \/ /\ fs.easyocr = "absent"
          /\ log' = Append(log, "info:Downloading EasyOCR models")
          /\ pc' = "easyocr_try"
          /\ UNCHANGED <<result, exc, raisedBy>>
    /\ UNCHANGED <<env, fs, fs0, branch, etl_service, caught, invocations,
                   doclingCalls, easyocrCalls, served, response>>

_check_unstructured_models_check_always ==
    /\ pc = "unstructured_check"
    /\ \/ /\ fs.easyocr = "file"
          /\ exc' = "NotADirectoryError"
          /\ raisedBy' = "iterdir"
          /\ result' = "raised"
          /\ pc' = "main_except"
          /\ UNCHANGED log
       \/ /\ fs.easyocr \in {"absent", "empty", "nonempty"}
          /\ log' = Append(log, "info:Downloading EasyOCR models")
          /\ pc' = "easyocr_try"
          /\ UNCHANGED <<result, exc, raisedBy>>
    /\ UNCHANGED <<env, fs, fs0, branch, etl_service, caught, invocations,
                   doclingCalls, easyocrCalls, served, response>>

_check_unstructured_models_check ==
    /\ pc = "unstructured_check"
    /\ \/ /\ fs.easyocr = "nonempty"
          /\ log' = Append(log, "info:EasyOCR models already cached")
          /\ result' = "returned"
          /\ pc' = "main_complete"
          /\ UNCHANGED <<exc, raisedBy>>
       \/ /\ fs.easyocr = "file"
          /\ exc' = "NotADirectoryError"
          /\ raisedBy' = "iterdir"
          /\ result' = "raised"
          /\ pc' = "main_except"
          /\ UNCHANGED log
       \/ /\ fs.easyocr \in {"absent", "empty"}
          /\ log' = Append(log, "info:Downloading EasyOCR models")
          /\ pc' = "easyocr_try"
          /\ UNCHANGED <<result, exc, raisedBy>>
    /\ UNCHANGED <<env, fs, fs0, branch, etl_service, caught, invocations,
                   doclingCalls, easyocrCalls, served, response>>

\* startup.py 71-77: easyocr.Reader(['en'], model_storage_directory=...)
\* downloads the models into the subdirectory, or raises, possibly leaving
\* the directory created or partly filled.
_check_unstructured_models_try ==
    /\ pc = "easyocr_try"
    /\ easyocrCalls' = easyocrCalls + 1
    /\ \/ /\ fs' = [fs EXCEPT !.easyocr = "nonempty"]
          /\ log' = Append(log, "info:EasyOCR models downloaded successfully")
          /\ result' = "returned"
          /\ pc' = "main_complete"
          /\ UNCHANGED caught
       \/ \E e \in InitExceptions, d \in PartialDownload(fs.easyocr) :
          /\ fs' = [fs EXCEPT !.easyocr = d]
          /\ caught' = e
          /\ pc' = "easyocr_except"
          /\ UNCHANGED <<log, result>>
    /\ UNCHANGED <<env, fs0, branch, etl_service, exc, raisedBy, invocations,
                   doclingCalls, served, response>>

\* startup.py 78-80: log the failure and re-raise it
_check_unstructured_models_except ==
    /\ pc = "easyocr_except"
    /\ log' = Append(log, "error:Failed to download EasyOCR models")
    /\ exc' = caught
    /\ raisedBy' = "easyocr"
    /\ result' = "raised"
    /\ pc' = "main_except"
    /\ UNCHANGED <<env, fs, fs0, branch, etl_service, caught, invocations,
                   doclingCalls, easyocrCalls, served, response>>

----------------------------------------------------------------------------
\* main.py 24: the call returned
ModuleTryComplete ==
    /\ pc = "main_complete"
    /\ log' = Append(log, "info:Model check complete")
    /\ pc' = "main_entry"
    /\ UNCHANGED <<env, fs, fs0, branch, etl_service, result, exc, caught, raisedBy,
                   invocations, doclingCalls, easyocrCalls, served, response>>

\* main.py 25-27: except Exception: log and carry on
ModuleExcept_propagate ==
    /\ pc = "main_except"
    /\ pc' = "crashed"
    /\ UNCHANGED <<env, fs, fs0, branch, etl_service, result, exc, caught, raisedBy,
                   invocations, doclingCalls, easyocrCalls, served, response,
                   log>>

ModuleExcept ==
    /\ pc = "main_except"
    /\ log' = Append(Append(log, "error:Model check failed"),
                     "warning:Application will start")
    /\ pc' = "main_entry"
    /\ UNCHANGED <<env, fs, fs0, branch, etl_service, result, exc, caught, raisedBy,
                   invocations, doclingCalls, easyocrCalls, served, response>>

\* main.py 29-38: build the uvicorn server and run it
ServerRun ==
    /\ pc = "main_entry"
    /\ pc' = "serving"
    /\ UNCHANGED <<env, fs, fs0, branch, etl_service, result, exc, caught, raisedBy,
                   invocations, doclingCalls, easyocrCalls, served, response,
                   log>>

----------------------------------------------------------------------------
\* config_routes.py 22-36: the body returned by GET /config
get_frontend_config_nodefault ==
    LET auth_type == getenv("AUTH_TYPE").val
        etl == getenv("ETL_SERVICE").val
    IN [authType |-> auth_type,
        etlService |-> etl,
        backendUrl |-> S_LOCALHOST,
        features |-> [googleAuthEnabled |-> (auth_type = S_GOOGLE),
                      localAuthEnabled |-> (auth_type = S_LOCAL)]]

get_frontend_config ==
    LET auth_type == OrDefault(getenv("AUTH_TYPE"), S_GOOGLE)
        etl == OrDefault(getenv("ETL_SERVICE"), S_UNSTRUCTURED)
    IN [authType |-> auth_type,
        etlService |-> etl,
        backendUrl |-> S_LOCALHOST,
        features |-> [googleAuthEnabled |-> (auth_type = S_GOOGLE),
                      localAuthEnabled |-> (auth_type = S_LOCAL)]]

\* auth_config_routes.py 11-20: the body returned by GET /auth/config
get_auth_config(base_url) ==
    LET auth_type == Upper(OrDefault(config.AUTH_TYPE, S_GOOGLE))
        etl == Upper(OrDefault(config.ETL_SERVICE, S_UNSTRUCTURED))
    IN [authType |-> auth_type,
        etlService |-> etl,
        backendBaseUrl |-> RStrip(base_url, "/")]

\* The HTTP server answers a request only once server.run() is executing.
GetConfig ==
    /\ pc = "serving"
    /\ served < MaxRequests
    /\ served' = served + 1
    /\ response' = [endpoint |-> "/config", status |-> 200,
                    body |-> get_frontend_config]
    /\ UNCHANGED <<env, fs, fs0, branch, pc, etl_service, result, exc, caught,
                   raisedBy, invocations, doclingCalls, easyocrCalls, log>>

GetAuthConfig ==
    /\ pc = "serving"
    /\ served < MaxRequests
    /\ served' = served + 1
    /\ \E base_url \in BaseUrls :
         response' = [endpoint |-> "/auth/config", status |-> 200,
                      body |-> get_auth_config(base_url)]
    /\ UNCHANGED <<env, fs, fs0, branch, pc, etl_service, result, exc, caught,
                   raisedBy, invocations, doclingCalls, easyocrCalls, log>>

----------------------------------------------------------------------------
Bootstrap ==
    \/ ModuleTry
    \/ check_and_download_models_start
    \/ check_and_download_models_branch
    \/ _check_docling_models_try
    \/ _check_docling_models_except
    \/ _check_unstructured_models_check
    \/ _check_unstructured_models_try
    \/ _check_unstructured_models_except
    \/ ModuleTryComplete
    \/ ModuleExcept
    \/ ServerRun

Next ==
    \/ ModuleTry
    \/ check_and_download_models_start
    \/ check_and_download_models_branch
    \/ _check_docling_models_try
    \/ _check_docling_models_except
    \/ _check_unstructured_models_check
    \/ _check_unstructured_models_try
    \/ _check_unstructured_models_except
    \/ ModuleTryComplete
    \/ ModuleExcept
    \/ ServerRun
    \/ GetConfig
    \/ GetAuthConfig

Spec == Init /\ [][Next]_vars

\* The interpreter runs the module top to bottom: a bootstrap step that can
\* run does run.
FairSpec == Init /\ [][Next]_vars /\ WF_vars(Bootstrap)

TypeOK ==
    /\ pc \in {"boot", "cadm_start", "cadm_branch", "docling_try",
               "docling_except", "unstructured_check", "easyocr_try",
               "easyocr_except", "main_complete", "main_except",
               "main_entry", "serving"}
    /\ result \in {"none", "running", "returned", "raised"}
    /\ fs \in FsStates
    /\ branch \in {"none", "return", "docling_try", "unstructured_check",
                   "warn"}
    /\ served \in 0..MaxRequests

----------------------------------------------------------------------------
\* Vocabulary of the properties.
Terminated == result \in {"returned", "raised"}
Answered == response.endpoint # "none"
HasNoLower(s) == \A i \in 1..Len(s) : ~IsLowerChar(s[i])
Range(q) == {q[i] : i \in 1..Len(q)}
KnownServices == {S_LLAMACLOUD, S_DOCLING, S_UNSTRUCTURED}
EtlIs(s) == env.ETL_SERVICE = Some(s)
EtlUnknown == env.ETL_SERVICE.set /\ env.ETL_SERVICE.val \notin KnownServices

\* C1: every failure of check_and_download_models (creating the model root,
\* or either initializer) is caught by main.py's try/except; the process goes
\* on to server.run(), and GET /config then answers 200.  Checked under
\* FairSpec.
C1_FailureStillServes ==
    /\ (result = "raised") ~> (pc = "serving")
    /\ []((result = "raised" /\ response.endpoint = "/config")
            => (pc = "serving" /\ response.status = 200))

C1_Witness ==
    /\ result = "raised"
    /\ raisedBy = "mkdir"
    /\ pc = "serving"
    /\ response.endpoint = "/config"
    /\ response.status = 200

\* C2: the routine is called once, and it has returned or raised before the
\* server serves anything.
C2_ProvisionedBeforeServing ==
    /\ invocations <= 1
    /\ (pc = "serving" \/ served > 0) => (invocations = 1 /\ Terminated)

C2_Witness ==
    /\ served > 0
    /\ invocations = 1
    /\ result = "returned"
    /\ easyocrCalls = 1

\* C3 (as stated): authType and etlService of every response of GET /config
\* and GET /auth/config contain no lower-case letter.
C3_AlwaysUpperCase ==
    Answered => /\ HasNoLower(response.body.authType)
                /\ HasNoLower(response.body.etlService)

C6_CloudNoWrite ==
    (EtlIs(S_LLAMACLOUD) /\ Terminated) =>
        /\ fs = fs0
        /\ doclingCalls = 0
        /\ easyocrCalls = 0
        /\ result = "returned"

\* C6 (amended): with ETL_SERVICE=LLAMACLOUD the routine calls no
\* initializer and writes nothing below the model root; it creates the model
\* root itself when absent.  It returns without error when the root exists
\* or is created; when creating it raises, that error propagates.
C6_CloudOnlyCreatesRoot ==
    (EtlIs(S_LLAMACLOUD) /\ Terminated) =>
        /\ doclingCalls = 0
        /\ easyocrCalls = 0
        /\ fs.easyocr = fs0.easyocr
        /\ fs.hf = fs0.hf
        /\ fs0.root = "dir" => (fs = fs0 /\ result = "returned")
        /\ result = "returned" => fs.root = "dir"
        /\ result = "raised" => (raisedBy = "mkdir" /\ fs = fs0)

C6_Witness ==
    /\ EtlIs(S_LLAMACLOUD)
    /\ result = "returned"
    /\ fs0.root = "absent"
    /\ fs.root = "dir"

\* C7: an initializer that raises is not called again, and the exception it
\* raised is the one check_and_download_models raises: the routine never
\* returns normally after an initializer failure.
C7_InitFailureReraised ==
    /\ doclingCalls + easyocrCalls <= 1
    /\ caught # "none" => result # "returned"
    /\ (caught # "none" /\ Terminated) => (result = "raised" /\ exc = caught)

C7_Witness ==
    /\ caught = "ImportError"
    /\ doclingCalls = 1
    /\ result = "raised"
    /\ exc = "ImportError"

\* C8 (as stated): for a set ETL_SERVICE outside LLAMACLOUD, DOCLING,
\* UNSTRUCTURED the routine returns normally and calls no initializer.
C8_UnknownServiceReady ==
    (EtlUnknown /\ Terminated) =>
        /\ result = "returned"
        /\ doclingCalls = 0
        /\ easyocrCalls = 0

\* C8 (amended): for such a value the routine calls no initializer; it logs
\* the warning and returns normally when the model root exists or is
\* created, and raises only when creating the model root raises.
C8_UnknownServiceReadyIfRoot ==
    (EtlUnknown /\ Terminated) =>
        /\ doclingCalls = 0
        /\ easyocrCalls = 0
        /\ raisedBy # "mkdir" =>
              (result = "returned" /\ "warning:Unknown ETL_SERVICE" \in Range(log))
        /\ result = "raised" => raisedBy = "mkdir"

C8_Witness ==
    /\ EtlIs(S_UNKNOWN_VALUE)
    /\ result = "returned"
    /\ branch = "warn"

\* C9: with AUTH_TYPE unset both endpoints answer authType GOOGLE, with
\* ETL_SERVICE unset both answer etlService UNSTRUCTURED.
C9_UnsetDefaults ==
    Answered =>
        /\ ~env.AUTH_TYPE.set => response.body.authType = S_GOOGLE
        /\ ~env.ETL_SERVICE.set => response.body.etlService = S_UNSTRUCTURED

C9_Witness ==
    /\ response.endpoint = "/config"
    /\ ~env.AUTH_TYPE.set
    /\ ~env.ETL_SERVICE.set
    /\ response.body.authType = S_GOOGLE
    /\ response.body.etlService = S_UNSTRUCTURED

\* C10 (as stated, for the runs in which the routine reached its branch):
\* the service an endpoint reports is the one whose branch startup took, and
\* startup never took the unknown-service branch for a value an endpoint
\* reports as a known service.
C10_ReportedServiceIsProvisioned ==
    (Answered /\ branch # "none") =>
        /\ response.body.etlService = S_UNSTRUCTURED
              => branch = "unstructured_check"
        /\ response.body.etlService = S_DOCLING => branch = "docling_try"
        /\ response.body.etlService \in KnownServices => branch # "warn"
====
